---- MODULE Spec2Model ----
(***************************************************************************)
(* Model of the authService core: the graceful-shutdown coordinator        *)
(* core.ShutdownManager (modules/core/shutdown.go) and core.AppContext:    *)
(* shutdown, configuration, health registry and Clone (modules/core/       *)
(* shutdown.go, modules/core/health.go and the AppContext source in        *)
(* unnamed/part_000).                                                      *)
(*                                                                         *)
(* The specifications share the variables:                                 *)
(*   SpecManager  a ShutdownManager used directly: RegisterHandler calls   *)
(*                and one Shutdown (drain) call;                           *)
(*   SpecRedrain  the same manager with Shutdown called by every thread    *)
(*                of Drains, in any interleaving;                          *)
(*   Spec         an AppContext: Shutdown calls from the threads in        *)
(*                Callers, RegisterShutdownHandler / AddShutdownHandler    *)
(*                calls and listeners on the shutdown channel;             *)
(*   SpecContext  Context() watcher goroutines racing with Shutdown;       *)
(*   SpecHealth   the health registry: updates, snapshots, aggregation;    *)
(*   SpecStamp    the registry with a clock: timestamps of stored entries; *)
(*   SpecConfig   the configuration map: SetConfig, GetConfig, the map the *)
(*                constructor was given;                                   *)
(*   SpecClone    Clone() and the independence of the clone;               *)
(*   SpecCloneSignal  Shutdown of a context and of its clone;              *)
(*   SpecRun      run() of cmd/app/main.go handling the shutdown signal;   *)
(*   SpecProbe    the health package: HealthService and the HTTP probes;   *)
(*   SpecLock     contention on mu and healthMu: readers, writers, Clone;  *)
(*   SpecDrain    configuration and registry operations during a drain.    *)
(*                                                                         *)
(* Go maps are reference values: heap holds the contents of every map that *)
(* was made, and Config / healthStatus hold references into it.            *)
(*                                                                         *)
(* Time is abstract: a handler's context.WithTimeout deadline is the event *)
(* DeadlineExpires, which may happen while the handler is running.         *)
(***************************************************************************)
EXTENDS Integers, Sequences, FiniteSets, TLC

\* ---------------------------------------------------------------- bounds
MaxHandlers == 3        \* RegisterHandler calls on the manager
MaxPriority == 2        \* priorities of the manager's handlers are 1..MaxPriority
MaxRequests == 2        \* RegisterShutdownHandler / AddShutdownHandler calls
MaxCheckers == 4        \* checkers registered with the HealthService
MaxTime     == 2        \* the clock runs from 0 to MaxTime

\* ------------------------------------------------------ program constants
StatusOK == 200                  \* http.StatusOK
StatusServiceUnavailable == 503  \* http.StatusServiceUnavailable
LoggerPriority  == 100  \* priority of the "logger" default handler
HealthPriority  == 90   \* priority of the "health" default handler
DefaultPriority == 50   \* priority AddShutdownHandler passes on

\* ------------------------------------------------------------- universes
Drains    == {"d1", "d2"}          \* threads calling ShutdownManager.Shutdown
Callers   == {"a1", "a2"}          \* threads calling AppContext.Shutdown
Threads   == Drains \cup Callers
Listeners == {"l1", "l2"}          \* goroutines holding the shutdown channel
NilChan   == "nil"                 \* the nil channel value
Chans     == {"ch0", "ch1"}               \* channels made by make(chan struct{})
\* What a user handler does when called: return nil, return an error, or
\* never return.  A handler that returns may do so before or after the
\* deadline of its context (see DeadlineExpires).
Beh       == {"ok", "err", "hang"}
Ctxs      == {"ac", "clone"}       \* the context built by NewAppContext, its clone
Watchers  == {"w1", "w2"}          \* goroutines started by Context()
Users     == {"u1", "u2"}          \* callers holding a map some getter returned
Components == {"appcontext", "db", "cache"}
\* HealthStatus.Status is a string: the three constants and any other text.
ServerComponent == "server"        \* the component name the HTTP server uses
Statuses  == {"healthy", "degraded", "unhealthy", "unknown"}
ConfigKeys == {"k1", "k2"}
ConfigValues == {"v1", "v2"}
NoRef     == 0                     \* no map (the field of a context not yet built)

VARIABLES
  handlers,     \* sm.handlers of the directly used manager (registration order)
  regLog,       \* history: RegisterHandler calls, whether a drain had started
  pc,           \* position of each thread inside Shutdown
  copied,       \* per thread: the copy of sm.handlers taken under the lock
  local,        \* per thread: the local slice after the priority sort
  idx,          \* per thread: position of the range loop over local (1-based)
  errors,       \* per thread: the local errors slice (names of failed handlers)
  result,       \* per thread: value returned by Shutdown
  beh,          \* per thread: behaviour of the handler now running
  expired,      \* per thread: handlerCtx deadline passed while handler runs
  invoked,      \* history per thread: handlers called, in call order
  returned,     \* history per thread: handlers that returned, with outcome
  shutdown,     \* ac.shutdown: a channel or nil
  closeCount,   \* per channel: number of close() calls performed on it
  mu,           \* ac.mu: "free" or the thread holding the write lock
  healthStatus, \* per context: reference of ac.healthStatus
  heap,         \* contents of every map made so far, by reference
  Config,       \* per context: reference of ac.Config
  muR,          \* ac.mu: threads holding the read lock
  now,          \* the clock read by time.Now()
  written,      \* history per context and component: clock at the last
                \* UpdateHealthStatus and the Timestamp its caller passed
  got,          \* per user: reference of the map a getter returned to it
  clonePc,      \* position of the thread inside Clone
  cloneCfg,     \* Clone: the reference GetConfig returned
  configured,   \* history per context: the entries it was built with, as
                \* changed by its SetConfig calls
  wpc,          \* per watcher: position of the Context() goroutine
  watching,     \* per watcher: the channel its select receives from
  wearly,       \* history per watcher: Context() was called before any Shutdown
  phcPc,        \* position inside PerformHealthChecks
  phcCheckers,  \* PerformHealthChecks: the local checkers map
  requested,    \* history: RegisterShutdownHandler calls (what the log line says)
  held,         \* per listener: value obtained from GetShutdownChannel
  before,       \* history per listener: callers not yet in Shutdown at that time
  cloneShutdown,\* clone.shutdown: "none" before Clone, then a channel or nil
  muWait,       \* ac.mu: writers whose Lock() call waits for the readers
  healthMu,     \* ac.healthMu: threads inside a read-locked section
  runPc,        \* position of run() of cmd/app/main.go
  hsCheckers    \* hs.checkers of the HealthService, in registration order

smVars  == <<handlers, regLog>>
thrVars == <<pc, copied, local, idx, errors, result, beh, expired, invoked, returned>>
acVars  == <<shutdown, closeCount, mu, healthStatus, heap, requested, held, before>>
acRest  == <<shutdown, closeCount, mu, requested, held, before>>
cfgVars == <<Config, muR, got, clonePc, cloneCfg, configured>>
hlVars  == <<now, written, phcPc, phcCheckers>>
ctxVars == <<wpc, watching, wearly>>
lockVars == <<cloneShutdown, muWait, healthMu>>
extVars == <<cfgVars, hlVars, ctxVars, lockVars, runPc, hsCheckers>>
vars    == <<handlers, regLog, pc, copied, local, idx, errors, result, beh, expired,
             invoked, returned, shutdown, closeCount, mu, healthStatus, heap,
             requested, held, before, Config, muR, got, clonePc, cloneCfg,
             configured, now,
             written, phcPc, phcCheckers, wpc, watching, wearly,
             cloneShutdown, muWait, healthMu, runPc, hsCheckers>>

\* ------------------------------------------------------------ data model
\* ShutdownHandler{Name, Handler, Timeout, Priority}; fn identifies the
\* Handler closure ("user", "loggerFlush", "healthCleanup").
ShutdownHandler(n, p, f) == [name |-> n, priority |-> p, fn |-> f]

\* HealthStatus{Status, Message, LastCheck, Timestamp}; Message and LastCheck
\* are carried along untouched by the registry and are left out.
HealthStatus(s, ts) == [status |-> s, timestamp |-> ts]

\* make(map[...]...)
EmptyMap == <<>>

\* Unique names given to the handlers registered on the manager.
RegNames == <<"h1", "h2", "h3", "h4", "h5", "h6">>

Names(hs) == [i \in DOMAIN hs |-> hs[i].name]

\* ------------------------------------------------- the priority sort
\* if handlers[i].Priority > handlers[j].Priority { swap }
ShouldSwap_reversed(a, b) == a.priority < b.priority
ShouldSwap(a, b) == a.priority > b.priority

Swap(h, i, j) == [h EXCEPT ![i] = h[j], ![j] = h[i]]

RECURSIVE SortInner(_, _, _)
\* for j := i + 1; j < len(handlers); j++ { ... }
SortInner(h, i, j) ==
  IF j > Len(h) THEN h
  ELSE SortInner(IF ShouldSwap(h[i], h[j]) THEN Swap(h, i, j) ELSE h, i, j + 1)

RECURSIVE SortOuter(_, _)
\* for i := 0; i < len(handlers); i++ { ... }
SortOuter(h, i) ==
  IF i > Len(h) THEN h ELSE SortOuter(SortInner(h, i, i + 1), i + 1)

SortHandlers(h) == SortOuter(h, 1)

\* ------------------------------------------------------------ Init
Init ==
  /\ handlers = <<>>
  /\ regLog = <<>>
  /\ pc = [t \in Threads |-> "idle"]
  /\ copied = [t \in Threads |-> <<>>]
  /\ local = [t \in Threads |-> <<>>]
  /\ idx = [t \in Threads |-> 0]
  /\ errors = [t \in Threads |-> <<>>]
  /\ result = [t \in Threads |-> "none"]
  /\ beh = [t \in Threads |-> "none"]
  /\ expired = [t \in Threads |-> FALSE]
  /\ invoked = [t \in Threads |-> <<>>]
  /\ returned = [t \in Threads |-> <<>>]
  /\ shutdown = "ch0"
  /\ closeCount = [c \in Chans |-> 0]
  /\ mu = "free"
  \* NewAppContext: Config is the caller's map itself (heap[1]); the health
  \* map (heap[2]) gets the "appcontext" entry through UpdateHealthStatus.
  /\ heap = << [k \in {"k1"} |-> "v1"],
               [c \in {"appcontext"} |-> HealthStatus("healthy", 0)] >>
  /\ Config = [x \in Ctxs |-> IF x = "ac" THEN 1 ELSE NoRef]
  /\ healthStatus = [x \in Ctxs |-> IF x = "ac" THEN 2 ELSE NoRef]
  /\ muR = {}
  /\ now = 0
  /\ written = [x \in Ctxs |-> [c \in Components \cup {ServerComponent} |->
                  IF x = "ac" /\ c = "appcontext"
                  THEN [at |-> 0, passed |-> 0] ELSE [at |-> -1, passed |-> -1]]]
  /\ got = [u \in Users |-> NoRef]
  /\ clonePc = "idle"
  /\ cloneCfg = NoRef
  /\ configured = [x \in Ctxs |-> IF x = "ac" THEN [k \in {"k1"} |-> "v1"]
                                  ELSE EmptyMap]
  /\ wpc = [w \in Watchers |-> "idle"]
  /\ watching = [w \in Watchers |-> "none"]
  /\ wearly = [w \in Watchers |-> FALSE]
  /\ phcPc = "idle"
  /\ phcCheckers = EmptyMap
  /\ requested = <<>>
  /\ held = [l \in Listeners |-> "none"]
  /\ before = [l \in Listeners |-> {}]
  /\ cloneShutdown = "none"
  /\ muWait = {}
  /\ healthMu = {}
  /\ runPc = "serving"
  /\ hsCheckers = <<>>

\* ------------------------------------------- ShutdownManager operations
DrainStarted == \E d \in Drains : pc[d] # "idle"

\* ShutdownManager.RegisterHandler: append under sm.mu; no return value.
RegisterHandler(p) ==
  /\ Len(handlers) < MaxHandlers
  /\ handlers' = Append(handlers, ShutdownHandler(RegNames[Len(handlers) + 1], p, "user"))
  /\ regLog' = Append(regLog, [name |-> RegNames[Len(handlers) + 1],
                               late |-> DrainStarted, result |-> "ok"])
  /\ UNCHANGED <<thrVars, acVars, extVars>>

\* ShutdownManager.Shutdown, lines 51-67: copy under the lock, sort the copy,
\* start the range loop with an empty errors slice.
BeginDrain(t, hs) ==
  /\ copied' = [copied EXCEPT ![t] = hs]
  /\ local' = [local EXCEPT ![t] = SortHandlers(hs)]
  /\ idx' = [idx EXCEPT ![t] = 1]
  /\ errors' = [errors EXCEPT ![t] = <<>>]
  /\ pc' = [pc EXCEPT ![t] = "loop"]

ManagerShutdown(d) ==
  /\ pc[d] = "idle"
  /\ BeginDrain(d, handlers)
  /\ UNCHANGED <<smVars, result, beh, expired, invoked, returned, acVars, extVars>>

\* What the closure may do when called.
Behaviours(h) == IF h.fn = "user" THEN Beh ELSE {"ok"}

\* lines 69-76: handlerCtx := WithTimeout(ctx, handler.Timeout);
\* err := handler.Handler(handlerCtx) -- the call is synchronous.
InvokeHandler(t, b) ==
  /\ pc[t] = "loop"
  /\ idx[t] <= Len(local[t])
  /\ b \in Behaviours(local[t][idx[t]])
  /\ pc' = [pc EXCEPT ![t] = "running"]
  /\ beh' = [beh EXCEPT ![t] = b]
  /\ expired' = [expired EXCEPT ![t] = FALSE]
  /\ invoked' = [invoked EXCEPT ![t] = Append(@, local[t][idx[t]])]
  /\ UNCHANGED <<smVars, copied, local, idx, errors, result, returned, acVars, extVars>>

\* The deadline of handlerCtx passes while the handler is still running.
DeadlineExpires(t) ==
  /\ pc[t] = "running"
  /\ ~expired[t]
  /\ expired' = [expired EXCEPT ![t] = TRUE]
  /\ UNCHANGED <<smVars, pc, copied, local, idx, errors, result, beh, invoked,
                 returned, acVars, extVars>>

\* Effect of the closure body on the AppContext: the health handler does
\* ac.healthStatus = make(map[string]HealthStatus) under healthMu.
HandlerEffect(h, st) ==
  IF h.fn = "healthCleanup"
  THEN [ref |-> [st.ref EXCEPT !["ac"] = Len(st.heap) + 1],
        heap |-> Append(st.heap, EmptyMap)]
  ELSE st

\* The range loop goes on to the next element whatever the outcome.
NextIndex_abort(i, n, failed) == IF failed THEN n + 1 ELSE i + 1
NextIndex(i, n, failed) == i + 1

\* lines 76-85: the handler returns; cancel(); a non-nil err is appended.
HandlerReturns(t) ==
  /\ pc[t] = "running"
  /\ beh[t] \in {"ok", "err"}
  /\ LET h == local[t][idx[t]]
         failed == beh[t] = "err"
     IN /\ errors' = [errors EXCEPT ![t] = IF failed THEN Append(@, h.name) ELSE @]
        /\ returned' = [returned EXCEPT ![t] =
                          Append(@, [name |-> h.name, failed |-> failed])]
        /\ idx' = [idx EXCEPT ![t] = NextIndex(idx[t], Len(local[t]), failed)]
        /\ healthStatus' = HandlerEffect(h, [ref |-> healthStatus, heap |-> heap]).ref
        /\ heap' = HandlerEffect(h, [ref |-> healthStatus, heap |-> heap]).heap
  /\ pc' = [pc EXCEPT ![t] = "loop"]
  /\ beh' = [beh EXCEPT ![t] = "none"]
  /\ expired' = [expired EXCEPT ![t] = FALSE]
  /\ UNCHANGED <<smVars, copied, local, result, invoked, shutdown, closeCount, mu,
                 requested, held, before, extVars>>

\* return errors[0] // Return first error
FirstError_last(errs) == errs[Len(errs)]
FirstError(errs) == errs[1]

\* lines 87-93: after the loop.
DrainReturns(t) ==
  /\ pc[t] = "loop"
  /\ idx[t] > Len(local[t])
  /\ result' = [result EXCEPT ![t] =
                  IF Len(errors[t]) > 0 THEN FirstError(errors[t]) ELSE "nil"]
  /\ pc' = [pc EXCEPT ![t] = "done"]
  /\ UNCHANGED <<smVars, copied, local, idx, errors, beh, expired, invoked,
                 returned, acVars, extVars>>

\* One thread drains the manager while handlers are being registered.
NextManager ==
  \/ \E p \in 1..MaxPriority : RegisterHandler(p)
  \/ ManagerShutdown("d1")
  \/ \E b \in Beh : InvokeHandler("d1", b)
  \/ DeadlineExpires("d1")
  \/ HandlerReturns("d1")
  \/ DrainReturns("d1")

SpecManager == Init /\ [][NextManager]_vars

\* Several threads call Shutdown on the same manager, one after the other or
\* concurrently.
NextRedrain ==
  \/ \E p \in 1..MaxPriority : RegisterHandler(p)
  \/ \E d \in Drains : ManagerShutdown(d)
  \/ \E d \in Drains, b \in Beh : InvokeHandler(d, b)
  \/ \E d \in Drains : DeadlineExpires(d)
  \/ \E d \in Drains : HandlerReturns(d)
  \/ \E d \in Drains : DrainReturns(d)

SpecRedrain == Init /\ [][NextRedrain]_vars

\* ------------------------------------------------- the AppContext's locks
\* ac.mu.RLock() proceeds: no writer holds mu and none is waiting for it (a
\* sync.RWMutex lets no new reader in once a Lock call is pending).
CanRLock == mu = "free" /\ muWait = {}

\* ac.mu.Lock() proceeds: nobody holds mu.
CanLock == mu = "free" /\ muR = {}

\* ac.healthMu.Lock() proceeds: nobody holds healthMu (writers of the health
\* map are single steps, so only readers are ever seen holding it).
CanLockHealth_sameLock == healthMu = {} /\ mu = "free" /\ muR = {}
CanLockHealth == healthMu = {}

\* --------------------------------------------------- AppContext operations
ReqNames == <<"r1", "r2", "r3", "r4">>
\* Priorities a component passes to RegisterShutdownHandler: before both
\* default handlers (the server uses 1) or between them.
ReqPriorities == {1, 95}

\* AppContext.RegisterShutdownHandler: "_ = handler" and one log line; the
\* handler is stored nowhere.  requested is the history of the calls.
RegisterShutdownHandler(p) ==
  /\ Len(requested) < MaxRequests
  /\ requested' = Append(requested,
                         [name |-> ReqNames[Len(requested) + 1], priority |-> p,
                          early |-> \A a \in Callers : pc[a] = "idle"])
  /\ UNCHANGED <<smVars, thrVars, shutdown, closeCount, mu, healthStatus, heap, held, before, extVars>>

\* AppContext.AddShutdownHandler: RegisterShutdownHandler(name, handler, 30s, 50).
AddShutdownHandler == RegisterShutdownHandler(DefaultPriority)

\* AppContext.IsShutdown: return ac.shutdown == nil (under the read lock).
IsShutdown == shutdown = NilChan

\* AppContext.GetShutdownChannel: return ac.shutdown (read without the lock;
\* the racing read yields the value before or after Shutdown's assignment).
GetShutdownChannel(l) ==
  /\ held[l] = "none"
  /\ held' = [held EXCEPT ![l] = shutdown]
  /\ before' = [before EXCEPT ![l] = {a \in Callers : pc[a] = "idle"}]
  /\ UNCHANGED <<smVars, thrVars, shutdown, closeCount, mu, healthStatus, heap, requested, extVars>>

\* AppContext.WaitForShutdown: return ac.GetShutdownChannel().
WaitForShutdown(l) == GetShutdownChannel(l)

\* AppContext.Shutdown line 98: ac.mu.Lock()
AcLock(a) ==
  /\ pc[a] = "idle"
  /\ CanLock
  /\ mu' = a
  /\ pc' = [pc EXCEPT ![a] = "locked"]
  /\ UNCHANGED <<smVars, copied, local, idx, errors, result, beh, expired, invoked,
                 returned, shutdown, closeCount, healthStatus, heap, requested, held, before, extVars>>

\* lines 99-102: if ac.shutdown == nil { Unlock; return nil }
AcAlreadyShutdown(a) ==
  /\ pc[a] = "locked"
  /\ shutdown = NilChan
  /\ mu' = "free"
  /\ result' = [result EXCEPT ![a] = "nil"]
  /\ pc' = [pc EXCEPT ![a] = "done"]
  /\ UNCHANGED <<smVars, copied, local, idx, errors, beh, expired, invoked,
                 returned, shutdown, closeCount, healthStatus, heap, requested, held, before, extVars>>

\* close(ch) on an open channel; the count tells a second close apart.
CloseChan_skip(cc, ch) == cc
CloseChan(cc, ch) == [cc EXCEPT ![ch] = @ + 1]

\* line 105: close(ac.shutdown); closing a closed channel panics.
AcCloseChannel(a) ==
  /\ pc[a] = "locked"
  /\ shutdown # NilChan
  /\ closeCount' = CloseChan(closeCount, shutdown)
  /\ pc' = [pc EXCEPT ![a] = IF closeCount[shutdown] > 0 THEN "panicked" ELSE "closed"]
  /\ UNCHANGED <<smVars, copied, local, idx, errors, result, beh, expired, invoked,
                 returned, shutdown, mu, healthStatus, heap, requested, held, before, extVars>>

\* line 106: ac.shutdown = nil
ClearedChannel_keep(ch) == ch
ClearedChannel(ch) == NilChan

\* line 107: ac.mu.Unlock(), before the drain (not deferred).
Unlocked_deferred(holder) == holder
Unlocked(holder) == "free"

\* lines 106-107: ac.shutdown = nil; ac.mu.Unlock()
AcClearAndUnlock(a) ==
  /\ pc[a] = "closed"
  /\ shutdown' = ClearedChannel(shutdown)
  /\ mu' = Unlocked(a)
  /\ pc' = [pc EXCEPT ![a] = "unlocked"]
  /\ UNCHANGED <<smVars, copied, local, idx, errors, result, beh, expired, invoked,
                 returned, closeCount, healthStatus, heap, requested, held, before, extVars>>

\* lines 110-126: the handlers of the manager created by AppContext.Shutdown.
DefaultHandlers ==
  << ShutdownHandler("logger", LoggerPriority, "loggerFlush"),
     ShutdownHandler("health", HealthPriority, "healthCleanup") >>

\* lines 110-133: NewShutdownManager, two RegisterHandler calls, the timeout
\* context, and the first part of shutdownManager.Shutdown(ctx).
AcStartDrain(a) ==
  /\ pc[a] = "unlocked"
  /\ BeginDrain(a, DefaultHandlers)
  /\ UNCHANGED <<smVars, result, beh, expired, invoked, returned, acVars, extVars>>

Next ==
  \/ \E p \in ReqPriorities : RegisterShutdownHandler(p)
  \/ AddShutdownHandler
  \/ \E l \in Listeners : GetShutdownChannel(l)
  \/ \E l \in Listeners : WaitForShutdown(l)
  \/ \E a \in Callers : AcLock(a)
  \/ \E a \in Callers : AcAlreadyShutdown(a)
  \/ \E a \in Callers : AcCloseChannel(a)
  \/ \E a \in Callers : AcClearAndUnlock(a)
  \/ \E a \in Callers : AcStartDrain(a)
  \/ \E a \in Callers, b \in Beh : InvokeHandler(a, b)
  \/ \E a \in Callers : DeadlineExpires(a)
  \/ \E a \in Callers : HandlerReturns(a)
  \/ \E a \in Callers : DrainReturns(a)

Spec == Init /\ [][Next]_vars

\* ------------------------------------------------------- AppContext.Context
\* Context(): ctx, cancel := context.WithCancel(Background()); go func(){...}()
ContextCall(w) ==
  /\ wpc[w] = "idle"
  /\ wpc' = [wpc EXCEPT ![w] = "spawned"]
  /\ wearly' = [wearly EXCEPT ![w] = \A a \in Callers : pc[a] = "idle"]
  /\ UNCHANGED <<smVars, thrVars, acVars, cfgVars, hlVars, watching,
                 lockVars, runPc,
                 hsCheckers>>

\* The goroutine reaches its select and evaluates the operand ac.shutdown
\* (read without the lock: the value before or after Shutdown's assignment).
WatcherSelect(w) ==
  /\ wpc[w] = "spawned"
  /\ watching' = [watching EXCEPT ![w] = shutdown]
  /\ wpc' = [wpc EXCEPT ![w] = "waiting"]
  /\ UNCHANGED <<smVars, thrVars, acVars, cfgVars, hlVars, wearly,
                 lockVars, runPc,
                 hsCheckers>>

\* case <-ac.shutdown: cancel() -- a receive from a closed channel proceeds,
\* a receive from a nil channel never does; ctx.Done() is closed by nobody
\* else, cancel being known to this goroutine only.
WatcherCancel(w) ==
  /\ wpc[w] = "waiting"
  /\ watching[w] \in Chans
  /\ closeCount[watching[w]] > 0
  /\ wpc' = [wpc EXCEPT ![w] = "cancelled"]
  /\ UNCHANGED <<smVars, thrVars, acVars, cfgVars, hlVars, watching, wearly,
                 lockVars, runPc,
                 hsCheckers>>

NextContext ==
  \/ \E w \in Watchers : ContextCall(w)
  \/ \E w \in Watchers : WatcherSelect(w)
  \/ \E w \in Watchers : WatcherCancel(w)
  \/ \E a \in Callers : AcLock(a)
  \/ \E a \in Callers : AcAlreadyShutdown(a)
  \/ \E a \in Callers : AcCloseChannel(a)
  \/ \E a \in Callers : AcClearAndUnlock(a)
  \/ \E a \in Callers : AcStartDrain(a)
  \/ \E a \in Callers, b \in Beh : InvokeHandler(a, b)
  \/ \E a \in Callers : HandlerReturns(a)
  \/ \E a \in Callers : DrainReturns(a)

\* Every goroutine that can take a step eventually takes it.
FairContext ==
  /\ \A w \in Watchers : WF_vars(WatcherSelect(w)) /\ WF_vars(WatcherCancel(w))
  /\ \A a \in Callers :
       /\ WF_vars(AcAlreadyShutdown(a)) /\ WF_vars(AcCloseChannel(a))
       /\ WF_vars(AcClearAndUnlock(a)) /\ WF_vars(AcStartDrain(a))
       /\ WF_vars(\E b \in Beh : InvokeHandler(a, b))
       /\ WF_vars(HandlerReturns(a)) /\ WF_vars(DrainReturns(a))

SpecContext == Init /\ [][NextContext]_vars /\ FairContext

\* ------------------------------------------------------------ Go map values
\* m[k] = v
MapPut_replace(m, k, v) == [j \in {k} |-> v]
MapPut(m, k, v) == [j \in DOMAIN m \cup {k} |-> IF j = k THEN v ELSE m[j]]

\* delete(m, k)
MapDelete(m, k) == [j \in DOMAIN m \ {k} |-> m[j]]

\* c := make(map...); for k, v := range m { c[k] = v }
CopyMap_empty(m) == EmptyMap
CopyMap(m) == [j \in DOMAIN m |-> m[j]]

\* The orders in which a range loop may visit the keys of m.
RangeOrders(m) ==
  {o \in [1..Cardinality(DOMAIN m) -> DOMAIN m] :
     \A i, j \in DOMAIN o : i # j => o[i] # o[j]}

\* ------------------------------------------------------- health registry
\* status.Timestamp = time.Now()
Stamp_keep(status, t) == status
Stamp(status, t) == [status EXCEPT !.timestamp = t]

\* The body of AppContext.UpdateHealthStatus(component, status) on context
\* x, under healthMu: stamp the copy and store it.
StoreHealthStatus(x, c, st) ==
  /\ healthStatus[x] # NoRef
  /\ x = "ac" => CanLockHealth
  /\ heap' = [heap EXCEPT ![healthStatus[x]] = MapPut(@, c, Stamp(st, now))]
  /\ written' = [written EXCEPT ![x][c] = [at |-> now, passed |-> st.timestamp]]

\* AppContext.UpdateHealthStatus called from outside.
UpdateHealthStatus(x, c, st) ==
  /\ StoreHealthStatus(x, c, st)
  /\ UNCHANGED <<smVars, thrVars, acRest, healthStatus, cfgVars, ctxVars,
                 now, phcPc, phcCheckers,
                 lockVars, runPc,
                 hsCheckers>>

\* AppContext.RegisterHealthChecker(checker): status := checker.CheckHealth();
\* status.Timestamp = time.Now() (read at t0); ac.UpdateHealthStatus(name, status).
RegisterHealthChecker(c, st) ==
  \E t0 \in 0..now : UpdateHealthStatus("ac", c, Stamp(st, t0))

\* AppContext.UnregisterHealthChecker(name): delete(ac.healthStatus, name).
UnregisterHealthChecker(c) ==
  /\ CanLockHealth
  /\ heap' = [heap EXCEPT ![healthStatus["ac"]] = MapDelete(@, c)]
  /\ UNCHANGED <<smVars, thrVars, acRest, healthStatus, extVars>>

\* The switch of GetOverallHealth's loop, for one entry.
ScanEntry(flags, status) ==
  [hasUnhealthy |-> flags.hasUnhealthy \/ status.status = "unhealthy",
   hasDegraded  |-> flags.hasDegraded \/ status.status = "degraded"]

\* for _, status := range ac.healthStatus { switch ... }, keys visited in
\* the order o, from position i on.
RECURSIVE ScanStatuses(_, _, _, _)
ScanStatuses(m, o, i, flags) ==
  IF i > Len(o) THEN flags
  ELSE ScanStatuses(m, o, i + 1, ScanEntry(flags, m[o[i]]))

\* overallStatus after the if / else if of GetOverallHealth.
OverallStatus_degradedFirst(flags) ==
  IF flags.hasDegraded THEN "degraded"
  ELSE IF flags.hasUnhealthy THEN "unhealthy" ELSE "healthy"
OverallStatus(flags) ==
  IF flags.hasUnhealthy THEN "unhealthy"
  ELSE IF flags.hasDegraded THEN "degraded" ELSE "healthy"

\* AppContext.GetOverallHealth on the registry content m, its range loop
\* visiting the keys in the order o.
GetOverallHealth(m, o) ==
  IF Cardinality(DOMAIN m) = 0
  THEN HealthStatus("healthy", now)
  ELSE HealthStatus(
         OverallStatus(ScanStatuses(m, o, 1,
                         [hasUnhealthy |-> FALSE, hasDegraded |-> FALSE])),
         now)

\* AppContext.IsHealthy
IsHealthy(m, o) == GetOverallHealth(m, o).status = "healthy"

\* What a getter hands to its caller: the map it has just made.
Returned_internal(fresh, internal) == internal
Returned(fresh, internal) == fresh

\* AppContext.GetHealthStatus called by user u: a new map holding the
\* entries of ac.healthStatus.
GetHealthStatus(u) ==
  /\ got[u] = NoRef
  /\ heap' = Append(heap, CopyMap(heap[healthStatus["ac"]]))
  /\ got' = [got EXCEPT ![u] = Returned(Len(heap) + 1, healthStatus["ac"])]
  /\ UNCHANGED <<smVars, thrVars, acRest, healthStatus, Config, muR, clonePc,
                 cloneCfg, configured, hlVars, ctxVars,
                 lockVars, runPc,
                 hsCheckers>>

\* The user adds or overwrites an entry of the map it was given.
UserPutsHealth(u, c, st) ==
  /\ got[u] # NoRef
  /\ heap' = [heap EXCEPT ![got[u]] = MapPut(@, c, st)]
  /\ UNCHANGED <<smVars, thrVars, acRest, healthStatus, extVars>>

\* The user deletes an entry of the map it was given.
UserDeletes(u, c) ==
  /\ got[u] # NoRef
  /\ c \in DOMAIN heap[got[u]]
  /\ heap' = [heap EXCEPT ![got[u]] = MapDelete(@, c)]
  /\ UNCHANGED <<smVars, thrVars, acRest, healthStatus, extVars>>

\* The health registry under arbitrary callers; the clock stands still.
HealthUsers == {"u1"}

NextHealth ==
  \/ \E c \in Components, s \in Statuses :
       UpdateHealthStatus("ac", c, HealthStatus(s, now))
  \/ \E c \in Components : UnregisterHealthChecker(c)
  \/ \E u \in HealthUsers : GetHealthStatus(u)
  \/ \E u \in HealthUsers, c \in Components, s \in Statuses :
       UserPutsHealth(u, c, HealthStatus(s, now))
  \/ \E u \in HealthUsers, c \in Components : UserDeletes(u, c)

SpecHealth == Init /\ [][NextHealth]_vars

\* ---------------------------------------------- AppContext.PerformHealthChecks
\* The read-locked part: checkers[name] = &defaultHealthChecker{status:
\* ac.healthStatus[name]} for every name of the registry.
PhcSnapshot ==
  /\ phcPc = "idle"
  /\ phcCheckers' = CopyMap(heap[healthStatus["ac"]])
  /\ phcPc' = "checking"
  /\ UNCHANGED <<smVars, thrVars, acVars, cfgVars, ctxVars, now, written,
                 lockVars, runPc,
                 hsCheckers>>

\* defaultHealthChecker.CheckHealth: return d.status
CheckHealth(checker) == checker

\* One round of the range loop over checkers: status := checker.CheckHealth();
\* ac.UpdateHealthStatus(name, status). phcCheckers keeps the names the
\* loop has still to visit.
PhcCheck(name) ==
  /\ phcPc = "checking"
  /\ name \in DOMAIN phcCheckers
  /\ StoreHealthStatus("ac", name, CheckHealth(phcCheckers[name]))
  /\ phcCheckers' = MapDelete(phcCheckers, name)
  /\ UNCHANGED <<smVars, thrVars, acRest, healthStatus, cfgVars, ctxVars,
                 now, phcPc,
                 lockVars, runPc,
                 hsCheckers>>

\* return results
PhcReturn ==
  /\ phcPc = "checking"
  /\ DOMAIN phcCheckers = {}
  /\ phcPc' = "idle"
  /\ UNCHANGED <<smVars, thrVars, acVars, cfgVars, ctxVars, now, written,
                 phcCheckers,
                 lockVars, runPc,
                 hsCheckers>>

\* time passes
Tick ==
  /\ now < MaxTime
  /\ now' = now + 1
  /\ UNCHANGED <<smVars, thrVars, acVars, cfgVars, ctxVars, written, phcPc,
                 phcCheckers,
                 lockVars, runPc,
                 hsCheckers>>

\* The registry's writers under a running clock.
StampComponents == {"appcontext", "db"}
StampStatuses == {"healthy", "unhealthy"}
PassedTimes == {0, MaxTime}    \* Timestamps a caller passes: past and future

NextStamp ==
  \/ Tick
  \/ \E c \in StampComponents, s \in StampStatuses, ts \in PassedTimes :
       UpdateHealthStatus("ac", c, HealthStatus(s, ts))
  \/ \E c \in StampComponents, s \in StampStatuses :
       RegisterHealthChecker(c, HealthStatus(s, 0))
  \/ \E c \in StampComponents : UnregisterHealthChecker(c)
  \/ PhcSnapshot
  \/ \E c \in StampComponents : PhcCheck(c)
  \/ PhcReturn

SpecStamp == Init /\ [][NextStamp]_vars

\* ------------------------------------------------------------ configuration
\* The map the caller of NewAppContext(logger, config) passed and still holds.
CallerConfig == 1

\* AppContext.SetConfig(key, value) on context x, under x's write lock (only
\* the lock of the context built by NewAppContext is ever contended).
SetConfig(x, k, v) ==
  /\ Config[x] # NoRef
  /\ x = "ac" => CanLock
  /\ heap' = [heap EXCEPT ![Config[x]] = MapPut(@, k, v)]
  /\ configured' = [configured EXCEPT ![x] = MapPut(@, k, v)]
  /\ UNCHANGED <<smVars, thrVars, acRest, healthStatus, Config, muR, got,
                 clonePc, cloneCfg, hlVars, ctxVars,
                 lockVars, runPc,
                 hsCheckers>>

\* AppContext.GetConfig called by user u, under the read lock: a new map
\* holding the entries of ac.Config.
GetConfig(u) ==
  /\ got[u] = NoRef
  /\ CanRLock
  /\ heap' = Append(heap, CopyMap(heap[Config["ac"]]))
  /\ got' = [got EXCEPT ![u] = Returned(Len(heap) + 1, Config["ac"])]
  /\ UNCHANGED <<smVars, thrVars, acRest, healthStatus, Config, muR, clonePc,
                 cloneCfg, configured, hlVars, ctxVars,
                 lockVars, runPc,
                 hsCheckers>>

\* The user adds or changes a key of the map it was given.
UserPutsConfig(u, k, v) ==
  /\ got[u] # NoRef
  /\ heap' = [heap EXCEPT ![got[u]] = MapPut(@, k, v)]
  /\ UNCHANGED <<smVars, thrVars, acRest, healthStatus, extVars>>

\* The caller of NewAppContext writes to the map it passed: cfg[k] = v.
CallerPutsConfig(k, v) ==
  /\ heap' = [heap EXCEPT ![CallerConfig] = MapPut(@, k, v)]
  /\ UNCHANGED <<smVars, thrVars, acRest, healthStatus, extVars>>

NextConfig ==
  \/ \E k \in ConfigKeys, v \in ConfigValues : SetConfig("ac", k, v)
  \/ \E u \in Users : GetConfig(u)
  \/ \E u \in Users, k \in ConfigKeys, v \in ConfigValues : UserPutsConfig(u, k, v)
  \/ \E k \in ConfigKeys, v \in ConfigValues : CallerPutsConfig(k, v)

SpecConfig == Init /\ [][NextConfig]_vars

\* ---------------------------------------------------------- AppContext.Clone
\* ac.mu.RLock()
CloneLock ==
  /\ clonePc = "idle"
  /\ CanRLock
  /\ muR' = muR \cup {"clone"}
  /\ clonePc' = "locked"
  /\ UNCHANGED <<smVars, thrVars, acVars, Config, got, cloneCfg, configured,
                 hlVars, ctxVars,
                 lockVars, runPc,
                 hsCheckers>>

\* Config: ac.GetConfig() -- the read lock is taken a second time.
CloneGetConfig ==
  /\ clonePc = "locked"
  /\ CanRLock
  /\ heap' = Append(heap, CopyMap(heap[Config["ac"]]))
  /\ cloneCfg' = Returned(Len(heap) + 1, Config["ac"])
  /\ clonePc' = "config"
  /\ UNCHANGED <<smVars, thrVars, acRest, healthStatus, Config, muR, got,
                 configured, hlVars, ctxVars,
                 lockVars, runPc,
                 hsCheckers>>

\* shutdown: make(chan struct{}) -- the clone's own channel.
CloneChan_shared(parent) == parent
CloneChan(parent) == "ch1"

\* healthStatus: ac.GetHealthStatus(); the clone is built and returned, the
\* deferred RUnlock runs.
CloneGetHealth ==
  /\ clonePc = "config"
  /\ heap' = Append(heap, CopyMap(heap[healthStatus["ac"]]))
  /\ healthStatus' = [healthStatus EXCEPT
                        !["clone"] = Returned(Len(heap) + 1, healthStatus["ac"])]
  /\ Config' = [Config EXCEPT !["clone"] = cloneCfg]
  /\ written' = [written EXCEPT !["clone"] = written["ac"]]
  /\ configured' = [configured EXCEPT !["clone"] = heap[cloneCfg]]
  /\ cloneShutdown' = CloneChan(shutdown)
  /\ muR' = muR \ {"clone"}
  /\ clonePc' = "done"
  /\ UNCHANGED <<smVars, thrVars, acRest, got, cloneCfg, now, phcPc,
                 phcCheckers, ctxVars, muWait, healthMu, runPc,
                 hsCheckers>>

\* A context and its clone, both written to.
NextClone ==
  \/ CloneLock
  \/ CloneGetConfig
  \/ CloneGetHealth
  \/ \E x \in Ctxs, k \in ConfigKeys, v \in ConfigValues : SetConfig(x, k, v)
  \/ \E x \in Ctxs, c \in StampComponents, s \in StampStatuses :
       UpdateHealthStatus(x, c, HealthStatus(s, now))

SpecClone == Init /\ [][NextClone]_vars

\* AppContext.Shutdown called on the clone, as one step: under the clone's
\* own mu, return if clone.shutdown is nil, else close it and set it to nil;
\* then the drain of the clone's two default handlers, of which the "health"
\* one gives the clone a new empty health map.
CloneShutdown ==
  /\ cloneShutdown \notin {"none", NilChan}
  /\ closeCount' = CloseChan(closeCount, cloneShutdown)
  /\ cloneShutdown' = ClearedChannel(cloneShutdown)
  /\ heap' = Append(heap, EmptyMap)
  /\ healthStatus' = [healthStatus EXCEPT !["clone"] = Len(heap) + 1]
  /\ UNCHANGED <<smVars, thrVars, shutdown, mu, requested, held, before,
                 cfgVars, hlVars, ctxVars, muWait, healthMu, runPc,
                 hsCheckers>>

\* A context and its clone, both shut down, in any order.
NextCloneSignal ==
  \/ CloneLock
  \/ CloneGetConfig
  \/ CloneGetHealth
  \/ CloneShutdown
  \/ \E a \in Callers : AcLock(a)
  \/ \E a \in Callers : AcAlreadyShutdown(a)
  \/ \E a \in Callers : AcCloseChannel(a)
  \/ \E a \in Callers : AcClearAndUnlock(a)
  \/ \E a \in Callers : AcStartDrain(a)
  \/ \E a \in Callers, b \in Beh : InvokeHandler(a, b)
  \/ \E a \in Callers : HandlerReturns(a)
  \/ \E a \in Callers : DrainReturns(a)

SpecCloneSignal == Init /\ [][NextCloneSignal]_vars

\* -------------------------------------------------- run() of cmd/app/main.go
\* server.Start in its goroutine: UpdateHealthStatus("server", healthy),
\* then ListenAndServe.
ServerStart ==
  /\ runPc = "serving"
  /\ ServerComponent \notin DOMAIN heap[healthStatus["ac"]]
  /\ UpdateHealthStatus("ac", ServerComponent, HealthStatus("healthy", now))

\* The body of run's select, case <-ctx.Done(): the interrupt / SIGTERM has
\* arrived; server.Shutdown(shutdownCtx) begins with
\* UpdateHealthStatus("server", degraded).
RunSignalled ==
  /\ runPc = "serving"
  /\ StoreHealthStatus("ac", ServerComponent, HealthStatus("degraded", now))
  /\ runPc' = "stopping"
  /\ UNCHANGED <<smVars, thrVars, acRest, healthStatus, cfgVars, ctxVars,
                 now, phcPc, phcCheckers, lockVars,
                 hsCheckers>>

\* s.httpServer.Shutdown(ctx) returns (err = TRUE: with an error); Server.
\* Shutdown stores the final status of "server" and run returns.
RunReturns(err) ==
  /\ runPc = "stopping"
  /\ StoreHealthStatus("ac", ServerComponent,
       HealthStatus(IF err THEN "unhealthy" ELSE "healthy", now))
  /\ runPc' = IF err THEN "failed" ELSE "returned"
  /\ UNCHANGED <<smVars, thrVars, acRest, healthStatus, cfgVars, ctxVars,
                 now, phcPc, phcCheckers, lockVars,
                 hsCheckers>>

\* case err := <-serverErr: return err
RunServerError ==
  /\ runPc = "serving"
  /\ StoreHealthStatus("ac", ServerComponent, HealthStatus("unhealthy", now))
  /\ runPc' = "failed"
  /\ UNCHANGED <<smVars, thrVars, acRest, healthStatus, cfgVars, ctxVars,
                 now, phcPc, phcCheckers, lockVars,
                 hsCheckers>>

\* The process of main.go: the server registers its handler with the
\* AppContext, listeners take the shutdown channel, the signal arrives.
NextRun ==
  \/ \E p \in ReqPriorities : RegisterShutdownHandler(p)
  \/ \E l \in Listeners : GetShutdownChannel(l)
  \/ \E l \in Listeners : WaitForShutdown(l)
  \/ \E c \in StampComponents, s \in Statuses :
       UpdateHealthStatus("ac", c, HealthStatus(s, now))
  \/ ServerStart
  \/ RunSignalled
  \/ \E err \in BOOLEAN : RunReturns(err)
  \/ RunServerError

SpecRun == Init /\ [][NextRun]_vars

\* ------------------------------------------- health package: HealthService
\* A registered checker: its name and the Status of the Check its function
\* returns.
BasicHealthChecker(n, s) == [name |-> n, status |-> s]

CheckerNames == <<"server", "database", "logger", "c4", "c5", "c6">>

\* HealthService.RegisterChecker: hs.checkers = append(hs.checkers, checker)
RegisterChecker(ch) ==
  /\ Len(hsCheckers) < MaxCheckers
  /\ hsCheckers' = Append(hsCheckers, ch)
  /\ UNCHANGED <<smVars, thrVars, acVars, cfgVars, hlVars, ctxVars, lockVars,
                 runPc>>

\* NewHealthHandler -> registerDefaultCheckers: "server", "database" and
\* "logger", each returning StatusHealthy, on the new HealthService.
RegisterDefaultCheckers ==
  /\ hsCheckers = <<>>
  /\ hsCheckers' = << BasicHealthChecker("server", "healthy"),
                      BasicHealthChecker("database", "healthy"),
                      BasicHealthChecker("logger", "healthy") >>
  /\ UNCHANGED <<smVars, thrVars, acVars, cfgVars, hlVars, ctxVars, lockVars,
                 runPc>>

\* check := checker.Check(ctx)
RunCheck(ch) == [name |-> ch.name, status |-> ch.status]

\* The if / else if in GetHealth's loop: overallStatus after one check.
Worsen_unguarded(overall, check) ==
  IF check.status = "unhealthy" THEN "unhealthy"
  ELSE IF check.status = "degraded" THEN "degraded"
  ELSE overall
Worsen(overall, check) ==
  IF check.status = "unhealthy" THEN "unhealthy"
  ELSE IF check.status = "degraded" /\ overall = "healthy" THEN "degraded"
  ELSE overall

\* The loop of GetHealth from checker i on: run it, append its check, adjust
\* overallStatus.
RECURSIVE GetHealthLoop(_, _, _)
GetHealthLoop(cs, i, acc) ==
  IF i > Len(cs) THEN acc
  ELSE LET check == RunCheck(cs[i])
       IN GetHealthLoop(cs, i + 1,
            [status |-> Worsen(acc.status, check),
             checks |-> Append(acc.checks, check)])

\* HealthService.GetHealth: the HealthResponse (Status and Checks).
GetHealth(cs) == GetHealthLoop(cs, 1, [status |-> "healthy", checks |-> <<>>])

\* HealthHandler.HealthCheck: the HTTP status code of the response.
HealthCheck_strict(cs) ==
  IF GetHealth(cs).status = "healthy" THEN StatusOK ELSE StatusServiceUnavailable
HealthCheck(cs) ==
  IF GetHealth(cs).status = "unhealthy" THEN StatusServiceUnavailable
  ELSE StatusOK

\* HealthHandler.LivenessProbe
LivenessProbe == [code |-> StatusOK, status |-> "ok"]

\* HealthHandler.ReadinessProbe
ReadinessProbe(cs) ==
  IF GetHealth(cs).status = "healthy"
  THEN [code |-> StatusOK, status |-> "ready"]
  ELSE [code |-> StatusServiceUnavailable, status |-> "not ready"]

\* The health endpoints next to the AppContext's registry.
NextProbe ==
  \/ RegisterDefaultCheckers
  \/ \E s \in Statuses :
       RegisterChecker(BasicHealthChecker(CheckerNames[Len(hsCheckers) + 1], s))
  \/ \E s \in StampStatuses :
       UpdateHealthStatus("ac", "db", HealthStatus(s, now))

SpecProbe == Init /\ [][NextProbe]_vars

\* ---------------------------------------------- contention on mu, healthMu
Writers == {"s1"}                  \* threads calling SetConfig while mu is held

\* SetConfig by writer t, first half: ac.mu.Lock() finds mu held and waits.
SetConfigWaits(t) ==
  /\ t \notin muWait
  /\ ~CanLock
  /\ muWait' = muWait \cup {t}
  /\ UNCHANGED <<smVars, thrVars, acVars, cfgVars, hlVars, ctxVars,
                 cloneShutdown, healthMu, runPc, hsCheckers>>

\* SetConfig by writer t, second half: the Lock call returns, the key is
\* written, the lock released.
SetConfigProceeds(t, k, v) ==
  /\ t \in muWait
  /\ CanLock
  /\ heap' = [heap EXCEPT ![Config["ac"]] = MapPut(@, k, v)]
  /\ configured' = [configured EXCEPT !["ac"] = MapPut(@, k, v)]
  /\ muWait' = muWait \ {t}
  /\ UNCHANGED <<smVars, thrVars, acRest, healthStatus, Config, muR, got,
                 clonePc, cloneCfg, hlVars, ctxVars, cloneShutdown, healthMu,
                 runPc, hsCheckers>>

\* GetOverallHealth called by user u: ac.healthMu.RLock(), the loop begins.
OverallHealthBegins(u) ==
  /\ u \notin healthMu
  /\ healthMu' = healthMu \cup {u}
  /\ UNCHANGED <<smVars, thrVars, acVars, cfgVars, hlVars, ctxVars,
                 cloneShutdown, muWait, runPc, hsCheckers>>

\* GetOverallHealth returns: the deferred ac.healthMu.RUnlock().
OverallHealthReturns(u) ==
  /\ u \in healthMu
  /\ healthMu' = healthMu \ {u}
  /\ UNCHANGED <<smVars, thrVars, acVars, cfgVars, hlVars, ctxVars,
                 cloneShutdown, muWait, runPc, hsCheckers>>

\* Readers and writers of both maps, Clone and the locked part of Shutdown.
NextLock ==
  \/ CloneLock
  \/ CloneGetConfig
  \/ CloneGetHealth
  \/ \E t \in Writers : SetConfigWaits(t)
  \/ \E t \in Writers, k \in ConfigKeys, v \in ConfigValues :
       SetConfigProceeds(t, k, v)
  \/ \E k \in ConfigKeys, v \in ConfigValues : SetConfig("ac", k, v)
  \/ \E u \in HealthUsers : GetConfig(u)
  \/ \E u \in HealthUsers : OverallHealthBegins(u)
  \/ \E u \in HealthUsers : OverallHealthReturns(u)
  \/ \E s \in StampStatuses : UpdateHealthStatus("ac", "db", HealthStatus(s, now))
  \/ UnregisterHealthChecker("db")
  \/ \E a \in Callers : AcLock(a)
  \/ \E a \in Callers : AcAlreadyShutdown(a)
  \/ \E a \in Callers : AcCloseChannel(a)
  \/ \E a \in Callers : AcClearAndUnlock(a)

SpecLock == Init /\ [][NextLock]_vars

\* ------------------------------------------------ operations during a drain
\* AppContext.Shutdown while other threads read and write the configuration
\* and the health registry.
NextDrain ==
  \/ \E a \in Callers : AcLock(a)
  \/ \E a \in Callers : AcAlreadyShutdown(a)
  \/ \E a \in Callers : AcCloseChannel(a)
  \/ \E a \in Callers : AcClearAndUnlock(a)
  \/ \E a \in Callers : AcStartDrain(a)
  \/ \E a \in Callers, b \in Beh : InvokeHandler(a, b)
  \/ \E a \in Callers : HandlerReturns(a)
  \/ \E a \in Callers : DrainReturns(a)
  \/ \E v \in ConfigValues : SetConfig("ac", "k2", v)
  \/ \E u \in HealthUsers : GetConfig(u)
  \/ \E s \in StampStatuses : UpdateHealthStatus("ac", "db", HealthStatus(s, now))

SpecDrain == Init /\ [][NextDrain]_vars

\* ================================================================ claims
InvokedNames(t) == {invoked[t][k].name : k \in DOMAIN invoked[t]}
TimesInvoked(t, n) == Cardinality({k \in DOMAIN invoked[t] : invoked[t][k].name = n})
Failures(t) == {i \in DOMAIN returned[t] : returned[t][i].failed}
MinOf(S) == CHOOSE x \in S : \A y \in S : x <= y

\* C1: within one ShutdownManager.Shutdown the handlers are called one at a
\* time (the k-th call returns before the k+1-th starts) and in non-decreasing
\* order of Priority.
C1_SequentialPriorityOrder ==
  \A d \in Drains :
    /\ Len(invoked[d]) - Len(returned[d]) = (IF pc[d] = "running" THEN 1 ELSE 0)
    /\ \A i \in DOMAIN returned[d] : returned[d][i].name = invoked[d][i].name
    /\ \A i, j \in DOMAIN invoked[d] :
         i < j => invoked[d][i].priority <= invoked[d][j].priority

\* A drain that finished three or more handlers registered out of order.
C1_Witness ==
  \E d \in Drains :
    /\ pc[d] = "done"
    /\ Len(invoked[d]) >= 3
    /\ \E i, j \in DOMAIN copied[d] : i < j /\ copied[d][i].priority > copied[d][j].priority

\* Insert h behind every element of the sorted list s whose priority is not
\* greater than its own.
RECURSIVE InsertStable(_, _)
InsertStable(s, h) ==
  IF s = <<>> THEN <<h>>
  ELSE IF s[Len(s)].priority <= h.priority THEN Append(s, h)
  ELSE Append(InsertStable(SubSeq(s, 1, Len(s) - 1), h), s[Len(s)])

RECURSIVE StableSort(_)
StableSort(hs) ==
  IF hs = <<>> THEN <<>>
  ELSE InsertStable(StableSort(SubSeq(hs, 1, Len(hs) - 1)), hs[Len(hs)])

\* C2: the invocation order of a drain equals the stable sort by priority of
\* the registration list, so handlers of equal priority run in registration
\* order.
C2_StableOrder ==
  \A d \in Drains :
    pc[d] = "done" => Names(invoked[d]) = Names(StableSort(copied[d]))

\* C3: every handler registered through AppContext.RegisterShutdownHandler or
\* AddShutdownHandler before the first AppContext.Shutdown call is invoked
\* exactly once by the Shutdown that runs the teardown.
C3_RequestedHandlersRun ==
  \A a \in Callers :
    (pc[a] = "done" /\ copied[a] # <<>>) =>
      \A i \in DOMAIN requested :
        requested[i].early => TimesInvoked(a, requested[i].name) = 1

\* C4: a drain calls every handler of its copy of the registration list
\* exactly once, whatever subset of the handlers returns an error.
C4_EveryHandlerOnce ==
  \A d \in Drains :
    /\ \A i \in DOMAIN copied[d] : TimesInvoked(d, copied[d][i].name) <= 1
    /\ pc[d] = "done" =>
         /\ Len(invoked[d]) = Len(copied[d])
         /\ \A i \in DOMAIN copied[d] : TimesInvoked(d, copied[d][i].name) = 1

\* A finished drain in which a handler failed and a later one still ran.
C4_Witness ==
  \E d \in Drains :
    /\ pc[d] = "done"
    /\ \E i, j \in DOMAIN returned[d] : i < j /\ returned[d][i].failed

\* C5: ShutdownManager.Shutdown returns nil iff no handler returned an error,
\* and otherwise the error of the first failing handler in execution order.
C5_FirstErrorReturned ==
  \A d \in Drains :
    pc[d] = "done" =>
      /\ (result[d] = "nil") <=> (Failures(d) = {})
      /\ Failures(d) # {} => result[d] = returned[d][MinOf(Failures(d))].name

\* A finished drain with two failing handlers.
C5_Witness ==
  \E d \in Drains : pc[d] = "done" /\ Cardinality(Failures(d)) >= 2

\* C6: whatever the interleaving of the AppContext.Shutdown calls, the
\* channel is closed at most once and never twice, one call at most runs the
\* teardown, each default handler runs at most once (exactly once when the
\* teardown finished), and every call that returned returned nil.
C6_ShutdownOnce ==
  /\ \A c \in Chans : closeCount[c] <= 1
  /\ \A a \in Callers : pc[a] # "panicked"
  /\ Cardinality({a \in Callers : pc[a] \in {"closed", "unlocked", "loop", "running"}
                                    \/ copied[a] # <<>>}) <= 1
  /\ \A i \in DOMAIN DefaultHandlers :
       /\ \A a, b \in Callers :
            a # b => ~(DefaultHandlers[i].name \in InvokedNames(a)
                        /\ DefaultHandlers[i].name \in InvokedNames(b))
       /\ \A a \in Callers : TimesInvoked(a, DefaultHandlers[i].name) <= 1
       /\ (\E a \in Callers : pc[a] = "done" /\ copied[a] # <<>>) =>
            \E a \in Callers : TimesInvoked(a, DefaultHandlers[i].name) = 1
  /\ \A a \in Callers : pc[a] = "done" => result[a] = "nil"

\* Every caller of AppContext.Shutdown has returned.
C6_Witness == \A a \in Callers : pc[a] = "done"

\* C7: a second ShutdownManager.Shutdown, during or after the first, executes
\* no handler again and returns the result of the first drain.
C7_SecondDrainNoOp ==
  \A d, e \in Drains :
    d # e =>
      /\ InvokedNames(d) \cap InvokedNames(e) = {}
      /\ (pc[d] = "done" /\ pc[e] = "done") => result[d] = result[e]

\* C8: a RegisterHandler call made after a drain started is rejected with an
\* error and its handler is not stored for execution.
C8_LateRegistrationRejected ==
  \A i \in DOMAIN regLog :
    regLog[i].late =>
      /\ regLog[i].result = "error"
      /\ \A k \in DOMAIN handlers : handlers[k].name # regLog[i].name

\* C9: a handler still running when its deadline passes is recorded as failed:
\* the step that ends the wait for such a handler appends to the errors.
C9_TimedOutHandlerFails ==
  [][\A d \in Drains :
       (pc[d] = "running" /\ expired[d] /\ pc'[d] # "running")
         => Len(errors'[d]) = Len(errors[d]) + 1]_vars

\* C10: when an AppContext.Shutdown call has returned, the channel held by a
\* listener that obtained it before that call is closed.
C10_ListenersSeeClose ==
  \A a \in Callers, l \in Listeners :
    (pc[a] = "done" /\ a \in before[l] /\ held[l] \in Chans)
      => closeCount[held[l]] >= 1

\* A Shutdown call returned while a listener holds the channel it obtained
\* before the call.
C10_Witness ==
  \E a \in Callers, l \in Listeners :
    pc[a] = "done" /\ a \in before[l] /\ held[l] \in Chans

\* C11: a context obtained from Context() before Shutdown is called is
\* eventually cancelled once Shutdown has been called, however the watcher
\* goroutine is interleaved with the Shutdown call.
C11_ContextCancelled ==
  \A w \in Watchers :
    (wearly[w] /\ wpc[w] # "idle" /\ \E a \in Callers : pc[a] # "idle")
      ~> (wpc[w] = "cancelled")

\* C12: IsShutdown() is false as long as no Shutdown call has begun, true once
\* a Shutdown call has returned, and once true it stays true.
C12_ShutdownIsTerminal ==
  [][ /\ IsShutdown => IsShutdown'
      /\ (\A a \in Callers : pc'[a] = "idle") => ~IsShutdown'
      /\ (\E a \in Callers : pc'[a] = "done") => IsShutdown' ]_vars

\* Both Shutdown calls returned and the context reports shut down.
C12_Witness == IsShutdown /\ \A a \in Callers : pc[a] = "done"

\* C13: after the Shutdown that ran the drain, the health registry holds no
\* component entry but the context's own one, which is Healthy if the drain
\* succeeded and Unhealthy if a handler failed.
C13_FinalHealthEntry ==
  \A a \in Callers :
    (pc[a] = "done" /\ copied[a] # <<>>) =>
      LET m == heap[healthStatus["ac"]]
      IN /\ DOMAIN m = {"appcontext"}
         /\ m["appcontext"].status =
              (IF Failures(a) = {} THEN "healthy" ELSE "unhealthy")

\* The registry content of the context built by NewAppContext.
Registry == heap[healthStatus["ac"]]

\* The status the claimed precedence gives for the registry content m.
WorstStatus(m) ==
  IF \E c \in DOMAIN m : m[c].status = "unhealthy" THEN "unhealthy"
  ELSE IF \E c \in DOMAIN m : m[c].status = "degraded" THEN "degraded"
  ELSE "healthy"

\* C14: whatever the registry holds and in whatever order the entries are
\* visited, GetOverallHealth returns Unhealthy if an entry is Unhealthy, else
\* Degraded if an entry is Degraded, else Healthy (also when it is empty).
C14_OverallHealthPrecedence ==
  \A o \in RangeOrders(Registry) :
    GetOverallHealth(Registry, o).status = WorstStatus(Registry)

\* The registry holds an Unhealthy and a Degraded entry at once.
C14_Witness ==
  /\ \E c \in DOMAIN Registry : Registry[c].status = "unhealthy"
  /\ \E c \in DOMAIN Registry : Registry[c].status = "degraded"

\* What later GetHealthStatus and GetOverallHealth calls return.
HealthView ==
  <<CopyMap(Registry),
    {GetOverallHealth(Registry, o).status : o \in RangeOrders(Registry)}>>

\* C15: a step in which a user adds, overwrites or deletes an entry of the
\* map GetHealthStatus returned leaves the results of later GetHealthStatus
\* and GetOverallHealth calls as they were.
C15_ReturnedHealthMapIsCopy ==
  [][ (\/ \E u \in Users, c \in Components, s \in Statuses :
            UserPutsHealth(u, c, HealthStatus(s, now))
       \/ \E u \in Users, c \in Components : UserDeletes(u, c))
      => HealthView' = HealthView ]_vars

\* A user added to the map it was given a component the registry never held.
C15_Witness ==
  \E u \in Users, c \in Components :
    /\ got[u] # NoRef
    /\ c \in DOMAIN heap[got[u]]
    /\ written["ac"][c].at = -1

\* C16: every entry of the registry carries as Timestamp the clock value at
\* which UpdateHealthStatus stored it, whatever Timestamp was passed in,
\* directly or through RegisterHealthChecker or PerformHealthChecks.
C16_StoredTimestampIsWriteTime ==
  \A c \in DOMAIN Registry : Registry[c].timestamp = written["ac"][c].at

\* An entry is stored whose writer passed a Timestamp other than the clock's.
C16_Witness ==
  \E c \in DOMAIN Registry :
    /\ written["ac"][c].passed # written["ac"][c].at
    /\ written["ac"][c].at > 0

\* What a later GetConfig call on the context returns.
ConfigView == CopyMap(heap[Config["ac"]])

\* C17: a step in which a user adds or changes a key of the map GetConfig
\* returned leaves the result of later GetConfig calls as it was.
C17_ReturnedConfigIsCopy ==
  [][ (\E u \in Users, k \in ConfigKeys, v \in ConfigValues :
         UserPutsConfig(u, k, v))
      => ConfigView' = ConfigView ]_vars

\* A user holds a map from GetConfig that it has changed since.
C17_Witness ==
  \E u \in Users :
    /\ got[u] # NoRef /\ got[u] # Config["ac"]
    /\ \E k \in DOMAIN heap[got[u]] :
         k \notin DOMAIN ConfigView \/ heap[got[u]][k] # ConfigView[k]

\* C18: what GetConfig returns is what NewAppContext was given as changed by
\* the SetConfig calls since; writes of the caller to the map it passed to
\* NewAppContext do not show in it.
C18_ConfigChangesOnlyBySetConfig == ConfigView = configured["ac"]

\* C19: a SetConfig(key, value) step leaves the configuration holding value
\* under key, every other key with its previous value, and no key fewer.
C19_SetConfigTouchesOneKey ==
  [][ \A k \in ConfigKeys, v \in ConfigValues :
        SetConfig("ac", k, v) =>
          /\ DOMAIN ConfigView' = DOMAIN ConfigView \cup {k}
          /\ ConfigView'[k] = v
          /\ \A j \in DOMAIN ConfigView \ {k} : ConfigView'[j] = ConfigView[j] ]_vars

\* SetConfig calls have added a key and overwritten the initial one.
C19_Witness ==
  /\ DOMAIN ConfigView = ConfigKeys
  /\ ConfigView["k1"] = "v2"

\* The entries of context x: configuration and health.
Entries(x) == <<heap[Config[x]], heap[healthStatus[x]]>>

\* C20: a clone is built with the configuration and health entries the
\* original holds at that moment, and thereafter a SetConfig or
\* UpdateHealthStatus on one of the two leaves the other's entries alone.
C20_CloneIndependent ==
  [][ /\ CloneGetHealth => Entries("clone")' = Entries("ac")
      /\ \A x, y \in Ctxs :
           (/\ x # y /\ Config[y] # NoRef
            /\ \/ \E k \in ConfigKeys, v \in ConfigValues : SetConfig(x, k, v)
               \/ \E c \in Components, s \in Statuses :
                    UpdateHealthStatus(x, c, HealthStatus(s, now)))
           => Entries(y)' = Entries(y) ]_vars

\* Clone and original have each been written to since the clone was made.
C20_Witness ==
  /\ Config["clone"] # NoRef
  /\ heap[Config["clone"]] # heap[Config["ac"]]
  /\ heap[healthStatus["clone"]] # heap[healthStatus["ac"]]
  /\ "k2" \in DOMAIN heap[Config["clone"]]
  /\ "db" \in DOMAIN heap[healthStatus["ac"]]

\* C21: the clone is built with an open channel of its own, also when the
\* parent is already shut down; no step of a Shutdown of the parent closes
\* the clone's channel or clears the clone's field, and a Shutdown of the
\* clone leaves the parent's channel, field, lock and registry alone.
C21_CloneSignalIndependent ==
  [][ /\ CloneGetHealth =>
           /\ cloneShutdown' \in Chans
           /\ cloneShutdown' # shutdown
           /\ closeCount'[cloneShutdown'] = 0
      /\ pc' # pc =>
           /\ cloneShutdown' = cloneShutdown
           /\ cloneShutdown \in Chans =>
                closeCount'[cloneShutdown] = closeCount[cloneShutdown]
      /\ CloneShutdown =>
           /\ shutdown' = shutdown /\ mu' = mu /\ pc' = pc
           /\ shutdown \in Chans => closeCount'[shutdown] = closeCount[shutdown]
           /\ heap'[healthStatus'["ac"]] = heap[healthStatus["ac"]] ]_vars

\* The parent is shut down, its channel closed; the clone's channel is open.
C21_Witness ==
  /\ IsShutdown /\ closeCount["ch0"] = 1
  /\ \E a \in Callers : pc[a] = "done"
  /\ cloneShutdown \in Chans /\ closeCount[cloneShutdown] = 0

\* C22: when run has handled the shutdown signal and returned, the
\* AppContext's shutdown channel has been closed, so that every listener
\* holding it is released.
C22_SignalClosesShutdownChannel ==
  runPc = "returned" => (IsShutdown /\ closeCount["ch0"] > 0)

\* C23: the readiness probe answers 200 "ready" exactly when the aggregate
\* status of the AppContext health registry is Healthy, and 503 "not ready"
\* otherwise.
C23_ReadinessFollowsRegistry ==
  \A o \in RangeOrders(Registry) :
    /\ GetOverallHealth(Registry, o).status = "healthy"
         => ReadinessProbe(hsCheckers) = [code |-> StatusOK, status |-> "ready"]
    /\ GetOverallHealth(Registry, o).status # "healthy"
         => ReadinessProbe(hsCheckers) =
              [code |-> StatusServiceUnavailable, status |-> "not ready"]

\* The checkers in every order they could have been registered in.
Orderings(cs) ==
  {[i \in DOMAIN cs |-> cs[f[i]]] :
     f \in {g \in [DOMAIN cs -> DOMAIN cs] :
              \A i, j \in DOMAIN cs : i # j => g[i] # g[j]}}

\* The status the claimed precedence gives for the checks of cs.
WorstCheck(cs) ==
  IF \E i \in DOMAIN cs : cs[i].status = "unhealthy" THEN "unhealthy"
  ELSE IF \E i \in DOMAIN cs : cs[i].status = "degraded" THEN "degraded"
  ELSE "healthy"

\* C24: GetHealth reports one check per registered checker, in registration
\* order, and Unhealthy over Degraded over Healthy as overall status, the
\* same for every order of registration.
C24_GetHealthAggregates ==
  /\ Len(GetHealth(hsCheckers).checks) = Len(hsCheckers)
  /\ \A i \in DOMAIN hsCheckers :
       GetHealth(hsCheckers).checks[i].name = hsCheckers[i].name
  /\ \A cs \in Orderings(hsCheckers) : GetHealth(cs).status = WorstCheck(hsCheckers)

\* An Unhealthy checker was registered before a Degraded one.
C24_Witness ==
  \E i, j \in DOMAIN hsCheckers :
    i < j /\ hsCheckers[i].status = "unhealthy" /\ hsCheckers[j].status = "degraded"

\* C25: the health endpoint answers 503 exactly when the overall status is
\* Unhealthy and 200 otherwise; the liveness probe always answers 200 "ok".
C25_HealthEndpointCodes ==
  /\ HealthCheck(hsCheckers) =
       (IF WorstCheck(hsCheckers) = "unhealthy" THEN 503 ELSE 200)
  /\ LivenessProbe = [code |-> 200, status |-> "ok"]

\* The overall status is Degraded: a Degraded checker and no Unhealthy one.
C25_Witness ==
  /\ hsCheckers # <<>>
  /\ WorstCheck(hsCheckers) = "degraded"

\* C26: the writers of the health map can proceed whenever healthMu is free,
\* whoever holds or waits for mu, and the readers of the health map always;
\* SetConfig and GetConfig can proceed whenever mu lets a writer,
\* respectively a reader, in, whoever holds healthMu.
C26_TwoLocks ==
  /\ healthMu = {} =>
       /\ ENABLED UpdateHealthStatus("ac", "db", HealthStatus("healthy", now))
       /\ ENABLED UnregisterHealthChecker("db")
  /\ \A u \in Users :
       /\ u \notin healthMu => ENABLED OverallHealthBegins(u)
       /\ got[u] = NoRef => ENABLED GetHealthStatus(u)
       /\ (got[u] = NoRef /\ CanRLock) => ENABLED GetConfig(u)
  /\ CanLock => ENABLED SetConfig("ac", "k2", "v2")

\* One thread is inside Shutdown's section under mu while another is inside
\* GetOverallHealth under healthMu.
C26_Witness ==
  /\ mu \in Callers
  /\ healthMu # {}

\* C27: Clone, once it holds the read lock on mu, is never kept from taking
\* it again in GetConfig: no writer waiting in between blocks it.
C27_CloneNeverBlocks ==
  clonePc = "locked" => ENABLED CloneGetConfig

\* C28: a listener that asks for the shutdown channel after a Shutdown call
\* has begun is given a channel (closed by then or closed later by that
\* call), never the nil channel on which a receive blocks forever.
C28_LateListenerObserves ==
  \A l \in Listeners :
    (held[l] # "none" /\ before[l] # Callers) => held[l] \in Chans

\* C29: the write-back of PerformHealthChecks for a name leaves the registry
\* without that name if it was unregistered since the snapshot, and leaves
\* the status stored since the snapshot in place if the entry was updated.
C29_WriteBackKeepsNewer ==
  [][ \A n \in Components :
        PhcCheck(n) =>
          IF n \notin DOMAIN Registry
          THEN n \notin DOMAIN Registry'
          ELSE Registry[n] # phcCheckers[n]
                 => Registry'[n].status = Registry[n].status ]_vars

\* The thread is past Shutdown's locked section and has not returned yet.
Draining(a) == pc[a] \in {"unlocked", "loop", "running"}

\* C30: a thread draining the handlers of AppContext.Shutdown holds neither
\* mu nor healthMu, IsShutdown is true by then, and unless some other thread
\* holds the lock concerned SetConfig, GetConfig, UpdateHealthStatus and
\* GetHealthStatus can proceed.
C30_DrainHoldsNoLock ==
  \A a \in Callers :
    Draining(a) =>
      /\ mu # a /\ a \notin muR /\ a \notin healthMu
      /\ IsShutdown
      /\ mu = "free" =>
           /\ ENABLED SetConfig("ac", "k2", "v2")
           /\ \A u \in Users : got[u] = NoRef => ENABLED GetConfig(u)
      /\ ENABLED UpdateHealthStatus("ac", "db", HealthStatus("unhealthy", now))
      /\ \A u \in Users : got[u] = NoRef => ENABLED GetHealthStatus(u)

\* A handler of the drain is running, and the configuration and the registry
\* have been written to.
C30_Witness ==
  /\ \E a \in Callers : pc[a] = "running" /\ mu = "free"
  /\ "k2" \in DOMAIN heap[Config["ac"]]
  /\ \E u \in Users : got[u] = NoRef
====
